---- MODULE Spec2Model ----
(***************************************************************************)
(* Model of the FSM matching library: the leaf matchers MatchCharacter and *)
(* MatchCharacterRange (both the single-label and the two-label family)    *)
(* and the recursive StateMachine::Match, run as an explicit call stack.   *)
(***************************************************************************)
EXTENDS Integers, Sequences, FiniteSets, TLC

VARIABLES
    machine,    \* identity of the StateMachine the public Match is called on
    input,      \* the token buffer handed to the public Match
    stack,      \* activation records of the private Match / nested public Match
    ret,        \* value returned by the activation that just ended, <<>> if none
    retAt,      \* where the pending return value was produced (terminal accept)
    lastGate,   \* last matcher result seen by the transition loop and what it did
    calls,      \* number of matcher invocations made so far
    leaf,       \* a leaf matcher under construction/test
    leafIn,     \* input buffer handed to the leaf matcher
    leafOut,    \* result of the leaf matcher's Match, <<>> if none
    first,      \* the first completed call on the machine: its input and result
    other       \* a second Match call on the same machine, while not running

vars == <<machine, input, stack, ret, retAt, lastGate, calls, leaf, leafIn, leafOut,
          first, other>>

-----------------------------------------------------------------------------
(* Bounds *)
MaxLen == 2
MaxDepth == 5
MaxTok == 3

(* uint32_t arithmetic.  TLC's integers are 32-bit signed, so the top of   *)
(* the uint32_t range, UINT32_MAX, is represented by the largest of them; *)
(* addition and subtraction wrap around at it.                            *)
UintMax == 2147483647
Add32(a, b) == IF a > UintMax - b THEN (a - (UintMax - b)) - 1 ELSE a + b
\* the subtraction with its operands exchanged
Sub32Exchanged(a, b) == IF b >= a THEN b - a ELSE (UintMax - (a - b)) + 1
Sub32(a, b) == IF a >= b THEN a - b ELSE (UintMax - (b - a)) + 1

(* template parameter FailState / FailType / ReturnState of the usage    *)
(* example, StateMachine<char, char, int, 0>                             *)
FailState == 0
(* template parameter AcceptState of MatchCharacter<char,int,0,1>        *)
AcceptState == 1

None == <<>>

-----------------------------------------------------------------------------
(* Leaf matchers.  A matcher object is a record of its members and of its  *)
(* template label parameters; the single-label family has one label,       *)
(* ReturnState, used for both outcomes (accept = fail).                    *)

\* the token at input[0] of a buffer starting at offset off
At(buf, off) == buf[off + 1]

\* MatchCharacter::Match with the negate flag left out of the test
MatchCharacterMatchIgnoreNegate(mc, buf, off, inputSize) ==
    IF inputSize = 0 \/ (mc._matchCharacter # At(buf, off))
    THEN <<mc.fail, 0>>
    ELSE <<mc.accept, 1>>

\* MatchCharacter::Match
MatchCharacterMatch(mc, buf, off, inputSize) ==
    IF inputSize = 0 \/ ((mc._matchCharacter # At(buf, off)) # mc._negate)
    THEN <<mc.fail, 0>>
    ELSE <<mc.accept, 1>>

\* MatchCharacterRange::Match with an exclusive upper bound
MatchCharacterRangeMatchExclusiveEnd(mr, buf, off, inputSize) ==
    IF inputSize = 0
       \/ ((At(buf, off) < mr._matchRangeStart \/ At(buf, off) >= mr._matchRangeEnd)
           # mr._negate)
    THEN <<mr.fail, 0>>
    ELSE <<mr.accept, 1>>

\* MatchCharacterRange::Match
MatchCharacterRangeMatch(mr, buf, off, inputSize) ==
    IF inputSize = 0
       \/ ((At(buf, off) < mr._matchRangeStart \/ At(buf, off) > mr._matchRangeEnd)
           # mr._negate)
    THEN <<mr.fail, 0>>
    ELSE <<mr.accept, 1>>

\* virtual dispatch of MatchInterface::Match on a leaf matcher
LeafMatchResult(m, buf, off, inputSize) ==
    IF m.kind = "char"
    THEN MatchCharacterMatch(m, buf, off, inputSize)
    ELSE MatchCharacterRangeMatch(m, buf, off, inputSize)

\* MatchCharacter(InputDataType i, bool negate)
NewMatchCharacter(i, negate, acceptLabel) ==
    [kind |-> "char", ctor |-> "negate", _matchCharacter |-> i, _negate |-> negate,
     fail |-> FailState, accept |-> acceptLabel]

\* MatchCharacter(InputDataType i): _negate is left uninitialised; uninit is
\* the value a later read of it yields
NewMatchCharacterDefault(i, uninit, acceptLabel) ==
    [kind |-> "char", ctor |-> "default", _matchCharacter |-> i, _negate |-> uninit,
     fail |-> FailState, accept |-> acceptLabel]

\* MatchCharacterRange(start, end, negate)
NewMatchCharacterRange(start, end, negate, acceptLabel) ==
    [kind |-> "range", ctor |-> "negate", _matchRangeStart |-> start,
     _matchRangeEnd |-> end, _negate |-> negate,
     fail |-> FailState, accept |-> acceptLabel]

\* MatchCharacterRange(start, end): _negate(false)
NewMatchCharacterRangeDefault(start, end, acceptLabel) ==
    [kind |-> "range", ctor |-> "default", _matchRangeStart |-> start,
     _matchRangeEnd |-> end, _negate |-> FALSE,
     fail |-> FailState, accept |-> acceptLabel]

\* The label a successful leaf match carries: ReturnState (= the fail label)
\* in the single-label family, AcceptState in the two-label family.
AcceptLabels == {FailState, AcceptState}

-----------------------------------------------------------------------------
(* Tokens (StateTransitionType = char) and the machines that are built.    *)

\* character codes of the tokens used by the machines and the inputs
Ascii == [one |-> 49, A |-> 65, Z |-> 90, a |-> 97, x |-> 120, y |-> 121, z |-> 122]

Tokens == {Ascii.one, Ascii.A, Ascii.a, Ascii.x, Ascii.y, Ascii.z}

\* A machine is identified by its topology, by the leaf-matcher family its
\* transitions use ("one": single label, "two": fail and accept label) and by
\* the value its exact-token matchers hold in _negate.
Families == {"one", "two"}

AcceptOf(id) == IF id.fam = "two" THEN AcceptState ELSE FailState

\* MatchCharacter<...>('c') as in the usage example
Ch(id, c) == NewMatchCharacterDefault(c, id.negate, AcceptOf(id))
\* MatchCharacterRange<...>(lo, hi)
Rg(id, lo, hi) == NewMatchCharacterRangeDefault(lo, hi, AcceptOf(id))
\* MatchCharacterRange<...>(lo, hi, true)
RgNot(id, lo, hi) == NewMatchCharacterRange(lo, hi, TRUE, AcceptOf(id))
\* a StateMachine used as the MatchRange of a transition
SubMachine(id, topo) == [kind |-> "machine", id |-> [id EXCEPT !.topo = topo]]
\* Transition: std::pair<MatchRange, std::vector<StateNameType>>
Tr(m, to) == [first |-> m, second |-> to]

\* StateMachine(initState, states, accStates)
NewStateMachine(initState, states, accStates) ==
    [InitialState |-> initState, States |-> states, AcceptanceStates |-> accStates]

Topologies ==
    {"Usage", "Alt", "Tie", "TieDeep", "Back", "Eps", "Cycle", "Empty",
     "AccTrans", "AccDead", "Dangling", "NoInit", "Outer", "AltZero",
     "OuterZero", "Neg"}

MachineIds == [topo : Topologies, fam : Families, negate : BOOLEAN]

Machine(id) ==
    CASE id.topo = "Usage" ->
           \* the USAGE example: "a[a-zA-Z]", label 1 for lower, 2 for upper case
           NewStateMachine("S0",
             [S0 |-> << Tr(Ch(id, Ascii.a), <<"S1">>) >>,
              S1 |-> << Tr(Rg(id, Ascii.a, Ascii.z), <<"S2">>),
                        Tr(Rg(id, Ascii.A, Ascii.Z), <<"S3">>) >>],
             [S2 |-> 1, S3 |-> 2])
      [] id.topo = "Alt" ->
           NewStateMachine("S0",
             [S0 |-> << Tr(Ch(id, Ascii.x), <<"S1">>),
                        Tr(Ch(id, Ascii.y), <<"S2">>) >>],
             [S1 |-> 1, S2 |-> 2])
      [] id.topo = "Tie" ->
           NewStateMachine("S0",
             [S0 |-> << Tr(Rg(id, Ascii.a, Ascii.z), <<"S1">>),
                        Tr(Ch(id, Ascii.a), <<"S2">>) >>],
             [S1 |-> 1, S2 |-> 2])
      [] id.topo = "TieDeep" ->
           NewStateMachine("S0",
             [S0 |-> << Tr(Ch(id, Ascii.a), <<"S1">>),
                        Tr(Rg(id, Ascii.a, Ascii.z), <<"S2">>) >>,
              S2 |-> << Tr(Ch(id, Ascii.x), <<"S3">>) >>],
             [S1 |-> 1, S3 |-> 2])
      [] id.topo = "Back" ->
           NewStateMachine("S0",
             [S0 |-> << Tr(Ch(id, Ascii.a), <<"S1", "S2">>),
                        Tr(Rg(id, Ascii.a, Ascii.z), <<"S3">>) >>,
              S1 |-> << Tr(Ch(id, Ascii.x), <<"S4">>) >>,
              S2 |-> << Tr(Ch(id, Ascii.y), <<"S5">>) >>,
              S3 |-> << Tr(Ch(id, Ascii.z), <<"S6">>) >>],
             [S4 |-> 1, S5 |-> 2, S6 |-> 3])
      [] id.topo = "Eps" ->
           NewStateMachine("S0",
             [S1 |-> << Tr(Ch(id, Ascii.a), <<"S0">>) >>],
             [S0 |-> 1])
      [] id.topo = "Cycle" ->
           NewStateMachine("S0",
             [S0 |-> << Tr(Ch(id, Ascii.a), <<"S0", "S1">>) >>],
             [S1 |-> 1])
      [] id.topo = "Empty" ->
           NewStateMachine("S0",
             [S0 |-> << Tr(Ch(id, Ascii.a), <<"S1">>) >>,
              S1 |-> << >>],
             [S1 |-> 1])
      [] id.topo = "AccTrans" ->
           NewStateMachine("S0",
             [S0 |-> << Tr(Ch(id, Ascii.a), <<"S1">>) >>,
              S1 |-> << Tr(Ch(id, Ascii.x), <<"S2">>) >>],
             [S1 |-> 1, S2 |-> 2])
      [] id.topo = "AccDead" ->
           \* an accepting state whose only transition leads to a state that
           \* is in neither table
           NewStateMachine("S0",
             [S0 |-> << Tr(Ch(id, Ascii.a), <<"S1">>) >>,
              S1 |-> << Tr(Ch(id, Ascii.x), <<"S9">>) >>],
             [S1 |-> 1])
      [] id.topo = "Dangling" ->
           NewStateMachine("S0",
             [S0 |-> << Tr(Ch(id, Ascii.a), <<"S9", "S1">>) >>],
             [S1 |-> 1])
      [] id.topo = "NoInit" ->
           NewStateMachine("S9",
             [S0 |-> << Tr(Ch(id, Ascii.a), <<"S1">>) >>],
             [S1 |-> 1])
      [] id.topo = "Outer" ->
           NewStateMachine("S0",
             [S0 |-> << Tr(SubMachine(id, "Alt"), <<"S1">>) >>,
              S1 |-> << Tr(Ch(id, Ascii.z), <<"S2">>) >>],
             [S2 |-> 3])
      [] id.topo = "AltZero" ->
           \* an accepting state bound to the fail label
           NewStateMachine("S0",
             [S0 |-> << Tr(Ch(id, Ascii.x), <<"S1">>) >>],
             [S1 |-> FailState])
      [] id.topo = "OuterZero" ->
           NewStateMachine("S0",
             [S0 |-> << Tr(SubMachine(id, "AltZero"), <<"S1">>) >>],
             [S1 |-> 1])
      [] id.topo = "Neg" ->
           NewStateMachine("S0",
             [S0 |-> << Tr(RgNot(id, Ascii.a, Ascii.z), <<"S1">>) >>],
             [S1 |-> 1])

-----------------------------------------------------------------------------
(* StateMachine::Match.  Every activation of the private, recursive Match  *)
(* (and of the public Match of a sub-machine used as a matcher) is a frame *)
(* on the stack, holding the parameters and locals of the C++ function.    *)

Inputs == UNION {[1..n -> Tokens] : n \in 0..MaxLen}

NoAt == [set |-> FALSE, m |-> None, CurState |-> "", charsMatched |-> 0,
         inputLength |-> 0]
NoGate == [set |-> FALSE, sub |-> FALSE, match |-> None]
NoMachine == [topo |-> "none", fam |-> "one", negate |-> FALSE]
NoLeaf == [kind |-> "none"]
NoCall == [set |-> FALSE, m |-> NoMachine, input |-> <<>>, ret |-> None]
NoCtx == [set |-> FALSE, input |-> <<>>, stack |-> <<>>, ret |-> None,
          retAt |-> NoAt, lastGate |-> NoGate]

\* validState: stateIter != States.end()
ValidState(M, CurState) == CurState \in DOMAIN M.States
\* acState != AcceptanceStates.end()
IsAccepting(M, CurState) == CurState \in DOMAIN M.AcceptanceStates

\* the terminal condition without its third disjunct
TerminalConditionNoPureAccept(M, CurState, inputLength) ==
    \/ inputLength = 0
    \/ (ValidState(M, CurState) /\ Len(M.States[CurState]) = 0)

\* the terminal condition without its second disjunct
TerminalConditionNoEmptyList(M, CurState, inputLength) ==
    \/ inputLength = 0
    \/ (~ValidState(M, CurState) /\ IsAccepting(M, CurState))

\* the condition of the first if of the private Match.  The reference
\* currentState is bound to stateIter->second even when stateIter is end();
\* it is read only behind validState, so the binding has no visible outcome.
TerminalCondition(M, CurState, inputLength) ==
    \/ inputLength = 0
    \/ (ValidState(M, CurState) /\ Len(M.States[CurState]) = 0)
    \/ (~ValidState(M, CurState) /\ IsAccepting(M, CurState))

\* the terminal result with the count kept on failure
TerminalResultKeepsCount(M, CurState, charsMatched) ==
    IF IsAccepting(M, CurState)
    THEN <<M.AcceptanceStates[CurState], charsMatched>>
    ELSE <<FailState, charsMatched>>

\* the value returned inside the first if of the private Match
TerminalResult(M, CurState, charsMatched) ==
    IF IsAccepting(M, CurState)
    THEN <<M.AcceptanceStates[CurState], charsMatched>>
    ELSE <<FailState, 0>>

\* the test that lets the transition loop go on to the targets of a
\* transition: the negation of "if(match.first != FailState) continue;"
Explores(match) == ~(match[1] # FailState)

\* the test of retVal inverted
ReturnedInverted(retVal) == retVal[2] = 0

\* "if(retVal.second != 0) return retVal;"
Returned(retVal) == retVal[2] # 0

\* an activation whose count of matched tokens is kept in a counter that all
\* calls share, instead of in the parameter
FrameSharedCount(m, CurState, inp, inputLength, charsMatched) ==
    [m |-> m, CurState |-> CurState, input |-> inp, inputLength |-> inputLength,
     charsMatched |-> charsMatched + calls, pc |-> "run", cur |-> 1, s |-> 1,
     match |-> None]

\* a fresh activation of the private Match
Frame(m, CurState, inp, inputLength, charsMatched) ==
    [m |-> m, CurState |-> CurState, input |-> inp, inputLength |-> inputLength,
     charsMatched |-> charsMatched, pc |-> "run", cur |-> 1, s |-> 1, match |-> None]

Top == stack[Len(stack)]
TopM == Machine(Top.m)
Pop == SubSeq(stack, 1, Len(stack) - 1)
SetTop(f) == [stack EXCEPT ![Len(stack)] = f]
Running == Len(stack) > 0 /\ Top.pc = "run"
\* the transition "cur" the loop of the top frame is at
CurTransition == TopM.States[Top.CurState][Top.cur]
InLoop ==
    /\ Running
    /\ ~TerminalCondition(TopM, Top.CurState, Top.inputLength)
    /\ ValidState(TopM, Top.CurState)
    /\ Top.cur <= Len(TopM.States[Top.CurState])

\* what the loop does with a matcher's result: skip the transition or
\* start on its targets
Gate(match) ==
    IF Explores(match)
    THEN [Top EXCEPT !.pc = "targets", !.s = 1, !.match = match]
    ELSE [Top EXCEPT !.pc = "run", !.cur = @ + 1, !.match = match]

LeafIdle == UNCHANGED <<leaf, leafIn, leafOut>>
\* a step of one Match call touches neither the record of the first call nor
\* the locals of another call
CallsIdle == UNCHANGED <<first, other>>

\* public Match(input, inputSize): Match(input, inputSize, InitialState, 0)
MatchPublic ==
    /\ machine # NoMachine
    /\ stack = <<>>
    /\ ret = None
    /\ stack' = <<Frame(machine, Machine(machine).InitialState, 0, Len(input), 0)>>
    /\ lastGate' = NoGate
    /\ UNCHANGED <<machine, input, ret, retAt, calls>>
    /\ LeafIdle
    /\ CallsIdle

\* private Match: the terminal condition holds, return the accept label with
\* charsMatched or {FailState, 0}
MatchTerminal ==
    /\ Running
    /\ TerminalCondition(TopM, Top.CurState, Top.inputLength)
    /\ ret' = TerminalResult(TopM, Top.CurState, Top.charsMatched)
    /\ retAt' = IF IsAccepting(TopM, Top.CurState)
                THEN [set |-> TRUE, m |-> Top.m, CurState |-> Top.CurState,
                      charsMatched |-> Top.charsMatched,
                      inputLength |-> Top.inputLength]
                ELSE NoAt
    /\ stack' = Pop
    /\ lastGate' = NoGate
    /\ UNCHANGED <<machine, input, calls>>
    /\ LeafIdle
    /\ CallsIdle

\* private Match: the loop calls a leaf matcher on the remaining input
MatchLeaf ==
    /\ InLoop
    /\ CurTransition.first.kind # "machine"
    /\ LET match == LeafMatchResult(CurTransition.first, input, Top.input,
                                    Top.inputLength)
       IN  /\ stack' = SetTop(Gate(match))
           /\ lastGate' = [set |-> TRUE, sub |-> FALSE, match |-> match]
    /\ calls' = calls + 1
    /\ UNCHANGED <<machine, input, ret, retAt>>
    /\ LeafIdle
    /\ CallsIdle

\* private Match: the loop calls the public Match of a sub-machine
MatchSubMachine ==
    /\ InLoop
    /\ CurTransition.first.kind = "machine"
    /\ Len(stack) < MaxDepth
    /\ LET sub == CurTransition.first.id
       IN  stack' = Append(SetTop([Top EXCEPT !.pc = "wait_match"]),
                           Frame(sub, Machine(sub).InitialState, Top.input,
                                 Top.inputLength, 0))
    /\ calls' = calls + 1
    /\ lastGate' = NoGate
    /\ UNCHANGED <<machine, input, ret, retAt>>
    /\ LeafIdle
    /\ CallsIdle

\* the sub-machine's Match has returned: its result is the loop's "match"
MatchSubMachineReturn ==
    /\ Len(stack) > 0
    /\ Top.pc = "wait_match"
    /\ ret # None
    /\ stack' = SetTop(Gate(ret))
    /\ lastGate' = [set |-> TRUE, sub |-> TRUE, match |-> ret]
    /\ ret' = None
    /\ retAt' = NoAt
    /\ UNCHANGED <<machine, input, calls>>
    /\ LeafIdle
    /\ CallsIdle

\* private Match: recursive call for the next target s of the transition
MatchRecurse ==
    /\ Len(stack) > 0
    /\ Top.pc = "targets"
    /\ Top.s <= Len(CurTransition.second)
    /\ Len(stack) < MaxDepth
    /\ stack' = Append(SetTop([Top EXCEPT !.pc = "wait_ret"]),
                       Frame(Top.m, CurTransition.second[Top.s],
                             Top.input + Top.match[2],
                             Sub32(Top.inputLength, Top.match[2]),
                             Add32(Top.charsMatched, Top.match[2])))
    /\ lastGate' = NoGate
    /\ UNCHANGED <<machine, input, ret, retAt, calls>>
    /\ LeafIdle
    /\ CallsIdle

\* the recursive call has returned: return its value if it consumed
\* anything, go on with the next target otherwise
MatchRecurseReturn ==
    /\ Len(stack) > 0
    /\ Top.pc = "wait_ret"
    /\ ret # None
    /\ IF Returned(ret)
       THEN /\ stack' = Pop
            /\ UNCHANGED <<ret, retAt>>
       ELSE /\ stack' = SetTop([Top EXCEPT !.pc = "targets", !.s = @ + 1])
            /\ ret' = None
            /\ retAt' = NoAt
    /\ lastGate' = NoGate
    /\ UNCHANGED <<machine, input, calls>>
    /\ LeafIdle
    /\ CallsIdle

\* the targets of the transition are used up: next transition
MatchTargetsDone ==
    /\ Len(stack) > 0
    /\ Top.pc = "targets"
    /\ Top.s > Len(CurTransition.second)
    /\ stack' = SetTop([Top EXCEPT !.pc = "run", !.cur = @ + 1])
    /\ lastGate' = NoGate
    /\ UNCHANGED <<machine, input, ret, retAt, calls>>
    /\ LeafIdle
    /\ CallsIdle

\* the final return falling back to the accept label of the current state
MatchFailAcceptsAtAcceptingState ==
    /\ Running
    /\ ~TerminalCondition(TopM, Top.CurState, Top.inputLength)
    /\ ValidState(TopM, Top.CurState) => Top.cur > Len(TopM.States[Top.CurState])
    /\ ret' = TerminalResult(TopM, Top.CurState, Top.charsMatched)
    /\ retAt' = IF IsAccepting(TopM, Top.CurState)
                THEN [set |-> TRUE, m |-> Top.m, CurState |-> Top.CurState,
                      charsMatched |-> Top.charsMatched,
                      inputLength |-> Top.inputLength]
                ELSE NoAt
    /\ stack' = Pop
    /\ lastGate' = NoGate
    /\ UNCHANGED <<machine, input, calls>>
    /\ LeafIdle
    /\ CallsIdle

\* private Match: no valid state, or the loop ran out of transitions:
\* the final "return {FailState, 0}"
MatchFail ==
    /\ Running
    /\ ~TerminalCondition(TopM, Top.CurState, Top.inputLength)
    /\ ValidState(TopM, Top.CurState) => Top.cur > Len(TopM.States[Top.CurState])
    /\ ret' = <<FailState, 0>>
    /\ retAt' = NoAt
    /\ stack' = Pop
    /\ lastGate' = NoGate
    /\ UNCHANGED <<machine, input, calls>>
    /\ LeafIdle
    /\ CallsIdle

Init ==
    /\ machine \in MachineIds
    /\ input \in Inputs
    /\ stack = <<>>
    /\ ret = None
    /\ retAt = NoAt
    /\ lastGate = NoGate
    /\ calls = 0
    /\ leaf = NoLeaf
    /\ leafIn = <<>>
    /\ leafOut = None
    /\ first = NoCall
    /\ other = NoCtx

Next ==
    \/ MatchPublic
    \/ MatchTerminal
    \/ MatchLeaf
    \/ MatchSubMachine
    \/ MatchSubMachineReturn
    \/ MatchRecurse
    \/ MatchRecurseReturn
    \/ MatchTargetsDone
    \/ MatchFail

Spec == Init /\ [][Next]_vars

\* the public Match has returned
Done == stack = <<>> /\ ret # None

-----------------------------------------------------------------------------
(* The leaf matchers on their own: construct one, call its Match once.     *)

LeafTokens == 0..MaxTok
LeafInputs == UNION {[1..n -> LeafTokens] : n \in 0..MaxLen}

EngineIdle == UNCHANGED <<machine, input, stack, ret, retAt, lastGate, calls,
                          first, other>>

\* MatchCharacter(i, negate)
ConstructMatchCharacter ==
    /\ leaf = NoLeaf
    /\ \E i \in LeafTokens, negate \in BOOLEAN, acceptLabel \in AcceptLabels :
         leaf' = NewMatchCharacter(i, negate, acceptLabel)
    /\ UNCHANGED <<leafIn, leafOut>>
    /\ EngineIdle

\* MatchCharacter(i): reading the uninitialised _negate yields either value
ConstructMatchCharacterDefault ==
    /\ leaf = NoLeaf
    /\ \E i \in LeafTokens, uninit \in BOOLEAN, acceptLabel \in AcceptLabels :
         leaf' = NewMatchCharacterDefault(i, uninit, acceptLabel)
    /\ UNCHANGED <<leafIn, leafOut>>
    /\ EngineIdle

\* MatchCharacterRange(start, end, negate)
ConstructMatchCharacterRange ==
    /\ leaf = NoLeaf
    /\ \E start \in LeafTokens, end \in LeafTokens, negate \in BOOLEAN,
          acceptLabel \in AcceptLabels :
         leaf' = NewMatchCharacterRange(start, end, negate, acceptLabel)
    /\ UNCHANGED <<leafIn, leafOut>>
    /\ EngineIdle

\* MatchCharacterRange(start, end)
ConstructMatchCharacterRangeDefault ==
    /\ leaf = NoLeaf
    /\ \E start \in LeafTokens, end \in LeafTokens, acceptLabel \in AcceptLabels :
         leaf' = NewMatchCharacterRangeDefault(start, end, acceptLabel)
    /\ UNCHANGED <<leafIn, leafOut>>
    /\ EngineIdle

\* leaf.Match(leafIn, Len(leafIn))
LeafMatch ==
    /\ leaf # NoLeaf
    /\ leafOut = None
    /\ leafOut' = LeafMatchResult(leaf, leafIn, 0, Len(leafIn))
    /\ UNCHANGED <<leaf, leafIn>>
    /\ EngineIdle

InitLeaf ==
    /\ machine = NoMachine
    /\ input = <<>>
    /\ stack = <<>>
    /\ ret = None
    /\ retAt = NoAt
    /\ lastGate = NoGate
    /\ calls = 0
    /\ leaf = NoLeaf
    /\ leafIn \in LeafInputs
    /\ leafOut = None
    /\ first = NoCall
    /\ other = NoCtx

NextLeaf ==
    \/ ConstructMatchCharacter
    \/ ConstructMatchCharacterDefault
    \/ ConstructMatchCharacterRange
    \/ ConstructMatchCharacterRangeDefault
    \/ LeafMatch

SpecLeaf == InitLeaf /\ [][NextLeaf]_vars

-----------------------------------------------------------------------------
(* Several Match calls on one machine: one after the other, on a machine   *)
(* built again from the same arguments, and two calls whose steps          *)
(* interleave (two threads sharing the StateMachine object).               *)

CallTokens == {Ascii.a, Ascii.x}
CallInputs == UNION {[1..n -> CallTokens] : n \in 0..MaxLen}

\* another input than buf
OtherInput(buf) == IF buf = <<>> THEN <<Ascii.a>> ELSE Tail(buf)

\* the machines the same constructor arguments can build: the topology and
\* the matcher family are the arguments, _negate of MatchCharacter(i) is not
SameArguments(id) == {n \in MachineIds : n.topo = id.topo /\ n.fam = id.fam}

\* parameters, locals and pending result of the running call
Ctx == [set |-> TRUE, input |-> input, stack |-> stack, ret |-> ret,
        retAt |-> retAt, lastGate |-> lastGate]

\* the public Match returned; the caller builds the machine again or keeps
\* it, and calls Match once more
MatchAgain ==
    /\ stack = <<>>
    /\ ret # None
    /\ ~other.set
    /\ first' = IF first.set THEN first
                ELSE [set |-> TRUE, m |-> machine, input |-> input, ret |-> ret]
    /\ machine' \in SameArguments(machine)
    /\ input' \in {first'.input, OtherInput(first'.input)}
    /\ ret' = None
    /\ retAt' = NoAt
    /\ lastGate' = NoGate
    /\ calls' = 0
    /\ UNCHANGED <<stack, other>>
    /\ LeafIdle

\* a second caller is about to call Match on the same machine
Spawn ==
    /\ stack = <<>>
    /\ ret = None
    /\ first.set
    /\ ~other.set
    /\ other' = Ctx
    /\ input' = OtherInput(first.input)
    /\ UNCHANGED <<machine, stack, ret, retAt, lastGate, calls, first>>
    /\ LeafIdle

\* the scheduler runs the other call
Switch ==
    /\ other.set
    /\ other' = Ctx
    /\ input' = other.input
    /\ stack' = other.stack
    /\ ret' = other.ret
    /\ retAt' = other.retAt
    /\ lastGate' = other.lastGate
    /\ UNCHANGED <<machine, calls, first>>
    /\ LeafIdle

\* one of two calls has returned; its caller is done with the result
Join ==
    /\ stack = <<>>
    /\ ret # None
    /\ other.set
    /\ (other.stack # <<>> \/ other.ret # None)
    /\ other' = NoCtx
    /\ input' = other.input
    /\ stack' = other.stack
    /\ ret' = other.ret
    /\ retAt' = other.retAt
    /\ lastGate' = other.lastGate
    /\ UNCHANGED <<machine, calls, first>>
    /\ LeafIdle

InitCalls == Init /\ input \in CallInputs

NextCalls ==
    \/ Next
    \/ MatchAgain
    \/ Spawn
    \/ Switch
    \/ Join

SpecCalls == InitCalls /\ [][NextCalls]_vars

-----------------------------------------------------------------------------
(* Properties *)

IsLower(x) == Ascii.a <= x /\ x <= Ascii.z
IsUpper(x) == Ascii.A <= x /\ x <= Ascii.Z

\* C1: the usage machine, built from plain exact-token and range matchers,
\* maps 'a' followed by a lower-case token to (LOWER, 2), 'a' followed by an
\* upper-case token to (UPPER, 2), 'a' followed by anything else and 'a'
\* alone to (FailLabel, 0).
C1_UsageExample ==
    (Done /\ machine.topo = "Usage" /\ ~machine.negate) =>
        /\ (Len(input) = 2 /\ input[1] = Ascii.a) =>
              ret = IF IsLower(input[2]) THEN <<1, 2>>
                    ELSE IF IsUpper(input[2]) THEN <<2, 2>>
                    ELSE <<FailState, 0>>
        /\ input = <<Ascii.a>> => ret = <<FailState, 0>>

\* C2: the loop goes on to a transition's targets if and only if the matcher
\* consumed something, whatever label it returned; no activation is ever in
\* the targets of a transition whose matcher consumed nothing.
C2_ExploredIffConsumed ==
    /\ lastGate.set => ((Top.pc = "targets") <=> (lastGate.match[2] > 0))
    /\ \A i \in 1..Len(stack) :
          stack[i].pc \in {"targets", "wait_ret"} => stack[i].match[2] > 0

\* C3: the two-alternative machine maps the one-token input 'x' to (L1, 1),
\* 'y' to (L2, 1) and every other token to (FailLabel, 0).
C3_DisjointAlternatives ==
    (Done /\ machine.topo = "Alt" /\ ~machine.negate /\ Len(input) = 1) =>
        ret = IF input[1] = Ascii.x THEN <<1, 1>>
              ELSE IF input[1] = Ascii.y THEN <<2, 1>>
              ELSE <<FailState, 0>>

\* a transition whose leaf matcher succeeds on the first token of buf
LeafSucceeds(t, buf) ==
    /\ t.first.kind # "machine"
    /\ LeafMatchResult(t.first, buf, 0, Len(buf))[2] > 0

\* an accepting state with no entry in the state table
PureAccepting(M, st) == IsAccepting(M, st) /\ ~ValidState(M, st)

InitialTransitions(M) ==
    IF ValidState(M, M.InitialState) THEN M.States[M.InitialState] ELSE <<>>

\* C4: when two transitions of the initial state both match the next token
\* and the earlier-declared one leads to an accepting state, Match returns
\* the label of the earlier one, also when the later path could go on
\* further down the input.
C4_DeclaredOrderTieBreak ==
    Done =>
      LET M == Machine(machine)
          trs == InitialTransitions(M)
      IN  \A i \in 1..Len(trs), j \in 1..Len(trs) :
            ( /\ i < j
              /\ LeafSucceeds(trs[i], input)
              /\ LeafSucceeds(trs[j], input)
              /\ \A k \in 1..(i - 1) : ~LeafSucceeds(trs[k], input)
              /\ PureAccepting(M, trs[i].second[1]) )
            => ret = <<M.AcceptanceStates[trs[i].second[1]], 1>>

\* the initial state is a key of the acceptance table only
EpsilonMachine(M) == PureAccepting(M, M.InitialState)

\* C5: a machine whose initial state is only in the acceptance table
\* returns (that state's label, 0) on every input and calls no matcher.
C5_EpsilonAcceptance ==
    (machine # NoMachine /\ EpsilonMachine(Machine(machine))) =>
        /\ calls = 0
        /\ Done => ret = <<Machine(machine).AcceptanceStates[
                              Machine(machine).InitialState], 0>>

C5_Witness ==
    /\ Done
    /\ machine # NoMachine
    /\ EpsilonMachine(Machine(machine))
    /\ Len(input) > 0
    /\ ret = <<1, 0>>

\* C6: a sub-machine used as a matcher is gated like a leaf matcher: its
\* targets are explored iff it consumed k > 0 tokens, whatever label it
\* returned, and then with the input and the count advanced by k.
C6_SubMachineAsMatcher ==
    /\ (lastGate.set /\ lastGate.sub) =>
          ((Top.pc = "targets") <=> (lastGate.match[2] > 0))
    /\ \A i \in 1..(Len(stack) - 1) :
          ( /\ stack[i].pc = "wait_ret"
            /\ Machine(stack[i].m).States[stack[i].CurState][stack[i].cur]
                 .first.kind = "machine" )
          => /\ stack[i].match[2] > 0
             /\ stack[i + 1].input = stack[i].input + stack[i].match[2]
             /\ stack[i + 1].charsMatched
                  = stack[i].charsMatched + stack[i].match[2]

\* C7: a returned pair is (FailLabel, 0) or the label of an accepting state
\* with the count held where the terminal condition accepted; unless an
\* accepting state is bound to FailLabel, FailLabel never comes with a
\* nonzero count.
C7_SingleFailureChannel ==
    ret # None =>
        /\ \/ (~retAt.set /\ ret = <<FailState, 0>>)
           \/ /\ retAt.set
              /\ IsAccepting(Machine(retAt.m), retAt.CurState)
              /\ ret = <<Machine(retAt.m).AcceptanceStates[retAt.CurState],
                         retAt.charsMatched>>
        /\ (retAt.set =>
              \A st \in DOMAIN Machine(retAt.m).AcceptanceStates :
                 Machine(retAt.m).AcceptanceStates[st] # FailState)
           => ~(ret[1] = FailState /\ ret[2] # 0)

C7_Witness ==
    /\ Done
    /\ retAt.set
    /\ ret[1] # FailState
    /\ ret[2] = Len(input)
    /\ ret[2] > 1

\* every transition of the machine uses a leaf matcher
LeafOnly(M) ==
    \A st \in DOMAIN M.States :
       \A i \in 1..Len(M.States[st]) : M.States[st][i].first.kind # "machine"

\* C8: with leaf matchers only, a recursive step is taken only after a token
\* was consumed, so the nesting depth of the private Match never exceeds the
\* input length plus one.
C8_DepthBound ==
    (machine # NoMachine /\ LeafOnly(Machine(machine))) =>
        Len(stack) <= Len(input) + 1

\* C9: MatchCharacter built with an explicit negate flag: (FailLabel, 0) on
\* empty input; without negate (accept label, 1) iff the token is the
\* configured one; with negate the outcomes are swapped; never more than one
\* token consumed.
C9_ExactTokenNegate ==
    (leafOut # None /\ leaf.kind = "char" /\ leaf.ctor = "negate") =>
        /\ Len(leafIn) = 0 => leafOut = <<FailState, 0>>
        /\ (Len(leafIn) > 0 /\ ~leaf._negate) =>
              leafOut = IF leafIn[1] = leaf._matchCharacter
                        THEN <<leaf.accept, 1>> ELSE <<FailState, 0>>
        /\ (Len(leafIn) > 0 /\ leaf._negate) =>
              leafOut = IF leafIn[1] = leaf._matchCharacter
                        THEN <<FailState, 0>> ELSE <<leaf.accept, 1>>
        /\ leafOut[2] <= 1

C9_Witness ==
    /\ leafOut # None
    /\ leaf.kind = "char"
    /\ leaf.ctor = "negate"
    /\ leaf._negate
    /\ Len(leafIn) > 0
    /\ leafIn[1] # leaf._matchCharacter
    /\ leafOut = <<leaf.accept, 1>>

\* C10: MatchCharacterRange with start <= end: without negate it consumes
\* one token iff start <= x <= end; with negate iff x < start or x > end; on
\* empty input it fails with 0 consumed.
C10_RangeInclusive ==
    (leafOut # None /\ leaf.kind = "range"
       /\ leaf._matchRangeStart <= leaf._matchRangeEnd) =>
        /\ Len(leafIn) = 0 => leafOut = <<FailState, 0>>
        /\ Len(leafIn) > 0 =>
              LET x == leafIn[1]
                  inside == leaf._matchRangeStart <= x /\ x <= leaf._matchRangeEnd
                  outside == x < leaf._matchRangeStart \/ x > leaf._matchRangeEnd
                  accepts == IF leaf._negate THEN outside ELSE inside
              IN  /\ accepts => leafOut = <<leaf.accept, 1>>
                  /\ ~accepts => leafOut = <<FailState, 0>>

C10_Witness ==
    /\ leafOut # None
    /\ leaf.kind = "range"
    /\ ~leaf._negate
    /\ leaf._matchRangeStart < leaf._matchRangeEnd
    /\ Len(leafIn) > 0
    /\ leafIn[1] = leaf._matchRangeEnd
    /\ leafOut = <<leaf.accept, 1>>

\* C11: MatchCharacter built from a token alone behaves as with negate =
\* false: (accept label, 1) on its token, (FailLabel, 0) on any other token
\* and on empty input.
C11_DefaultConstructor ==
    (leafOut # None /\ leaf.kind = "char" /\ leaf.ctor = "default") =>
        leafOut = IF Len(leafIn) > 0 /\ leafIn[1] = leaf._matchCharacter
                  THEN <<leaf.accept, 1>>
                  ELSE <<FailState, 0>>

\* C12: two Match calls on machines built from the same arguments, on the
\* same input, return the same pair, whatever was matched in between.
C12_Determinism ==
    ( /\ stack = <<>>
      /\ ret # None
      /\ first.set
      /\ machine.topo = first.m.topo
      /\ machine.fam = first.m.fam
      /\ input = first.input )
    => ret = first.ret

\* a state that is a key of neither the state table nor the acceptance table
DeadEnd(M, st) == ~ValidState(M, st) /\ ~IsAccepting(M, st)

\* C13: a machine whose initial state is in neither table returns
\* (FailLabel, 0) on every input; a recursive step into a target that is in
\* neither table returns (FailLabel, 0), and the caller goes on with its
\* next target (then its next transition).
C13_MalformedTopology ==
    /\ []( (stack = <<>> /\ ret # None
              /\ DeadEnd(Machine(machine), Machine(machine).InitialState))
           => ret = <<FailState, 0>> )
    /\ [][ ( /\ Len(stack) > 0
             /\ Top.pc = "wait_ret"
             /\ ret # None
             /\ DeadEnd(TopM, CurTransition.second[Top.s]) )
           => /\ ret = <<FailState, 0>>
              /\ stack' = SetTop([Top EXCEPT !.pc = "targets", !.s = @ + 1])
              /\ ret' = None ]_vars

C13_Witness ==
    /\ Len(stack) > 0
    /\ Top.pc = "targets"
    /\ Top.s > 1
    /\ Top.s <= Len(CurTransition.second)
    /\ DeadEnd(TopM, CurTransition.second[Top.s - 1])
    /\ Len(input) > 0

\* C14: no step of a Match call changes the machine, and a call whose steps
\* interleave with those of another call on the same machine returns what
\* the same call returned when it ran alone.
C14_MachineUnchanged ==
    /\ []( ( /\ stack = <<>>
             /\ ret # None
             /\ first.set
             /\ machine = first.m
             /\ input = first.input )
           => ret = first.ret )
    /\ [][ (stack # <<>> \/ stack' # <<>> \/ other.set) => machine' = machine ]_vars

C14_Witness ==
    /\ stack = <<>>
    /\ ret # None
    /\ ret[2] > 0
    /\ first.set
    /\ machine = first.m
    /\ input = first.input
    /\ other.set
    /\ Len(other.stack) > 1

\* the terminal condition of a step at state st with remaining tokens left
IsTerminalStep(M, st, remaining) ==
    \/ remaining = 0
    \/ (st \in DOMAIN M.States /\ M.States[st] = <<>>)
    \/ (st \notin DOMAIN M.States /\ st \in DOMAIN M.AcceptanceStates)

\* C15: a step under the terminal condition (no input left, or an empty
\* transition list, or an accepting state without entry in the state table)
\* calls no matcher and returns (accept label, consumedSoFar) if the state is
\* accepting, (FailLabel, 0) otherwise.
C15_TerminalCondition ==
    [][ ( /\ Len(stack) > 0
          /\ Top.pc = "run"
          /\ IsTerminalStep(TopM, Top.CurState, Top.inputLength) )
        => /\ stack' = Pop
           /\ calls' = calls
           /\ ret' = IF Top.CurState \in DOMAIN TopM.AcceptanceStates
                     THEN <<TopM.AcceptanceStates[Top.CurState], Top.charsMatched>>
                     ELSE <<FailState, 0>> ]_vars

\* an accepting state with an empty transition list has accepted with the
\* count reached while input remained
C15_Witness ==
    /\ ret # None
    /\ retAt.set
    /\ ValidState(Machine(retAt.m), retAt.CurState)
    /\ Machine(retAt.m).States[retAt.CurState] = <<>>
    /\ retAt.charsMatched > 0
    /\ retAt.charsMatched < Len(input)
    /\ ret = <<Machine(retAt.m).AcceptanceStates[retAt.CurState], retAt.charsMatched>>

\* The search of the transition loop (lines 162-176) in which the targets of
\* a transition are tried when its matcher consumed input: transitions in
\* declared order, targets in declared order, the first recursive result
\* with a nonzero count wins, a zero count goes on to the next target and
\* then to the next transition.  c is the count consumed so far.
RECURSIVE FirstSuccessStep(_, _, _, _)
RECURSIVE FirstSuccessTransition(_, _, _, _, _)
RECURSIVE FirstSuccessTarget(_, _, _, _, _, _, _)
FirstSuccessStep(M, st, buf, c) ==
    IF IsTerminalStep(M, st, Len(buf) - c)
    THEN TerminalResult(M, st, c)
    ELSE IF ~ValidState(M, st)
         THEN <<FailState, 0>>
         ELSE FirstSuccessTransition(M, st, buf, c, 1)
FirstSuccessTransition(M, st, buf, c, cur) ==
    IF cur > Len(M.States[st])
    THEN <<FailState, 0>>
    ELSE LET match == LeafMatchResult(M.States[st][cur].first, buf, c, Len(buf) - c)
         IN  IF match[2] > 0
             THEN FirstSuccessTarget(M, st, buf, c, cur, 1, match[2])
             ELSE FirstSuccessTransition(M, st, buf, c, cur + 1)
FirstSuccessTarget(M, st, buf, c, cur, s, k) ==
    IF s > Len(M.States[st][cur].second)
    THEN FirstSuccessTransition(M, st, buf, c, cur + 1)
    ELSE LET retVal == FirstSuccessStep(M, M.States[st][cur].second[s], buf, c + k)
         IN  IF retVal[2] # 0
             THEN retVal
             ELSE FirstSuccessTarget(M, st, buf, c, cur, s + 1, k)

\* C16: first success wins, with backtracking: transitions are tried in
\* declared order and, for each transition whose matcher succeeded, its
\* targets in declared order; the step returns the first recursive result
\* with a nonzero count and goes on to the next target, then the next
\* transition, after a zero count.  For a machine of leaf matchers the value
\* of Match is therefore the value of that search from InitialState.
C16_FirstSuccessWins ==
    (Done /\ LeafOnly(Machine(machine))) =>
        ret = FirstSuccessStep(Machine(machine), Machine(machine).InitialState, input, 0)

\* the top activation is at a state with a non-empty transition list while
\* input remains
NonTerminalStep ==
    /\ Len(stack) > 0
    /\ ValidState(TopM, Top.CurState)
    /\ Len(TopM.States[Top.CurState]) > 0
    /\ Top.inputLength > 0

\* C17: no fallback acceptance.  A step at a state with a non-empty
\* transition list and input remaining, in which no transition/target
\* combination returned a nonzero count, returns (FailLabel, 0), also when
\* the state is accepting and consumedSoFar > 0; the accept label of a state
\* with a non-empty transition list has been returned only with the input
\* exhausted at it.
C17_NoFallbackAcceptance ==
    /\ []( ( /\ ret # None
             /\ retAt.set
             /\ ValidState(Machine(retAt.m), retAt.CurState)
             /\ Len(Machine(retAt.m).States[retAt.CurState]) > 0 )
           => retAt.inputLength = 0 )
    /\ [][ ( /\ NonTerminalStep
             /\ Top.pc = "run"
             /\ Top.cur > Len(TopM.States[Top.CurState]) )
           => /\ stack' = Pop
              /\ ret' = <<FailState, 0>> ]_vars

\* the step at an accepting state with a transition list, entered with one
\* token consumed and one remaining, has returned (FailLabel, 0) to the step
\* that called it
C17_Witness ==
    /\ Len(stack) > 0
    /\ Top.pc = "wait_ret"
    /\ ret = <<FailState, 0>>
    /\ Top.match[2] > 0
    /\ Top.inputLength > Top.match[2]
    /\ IsAccepting(TopM, CurTransition.second[Top.s])
    /\ ValidState(TopM, CurTransition.second[Top.s])
    /\ Len(TopM.States[CurTransition.second[Top.s]]) > 0

\* there is a chain of states from st, reached with c tokens consumed, in
\* which every next state is a declared target of a transition whose leaf
\* matcher consumes input at the offset reached so far, that ends with n
\* tokens consumed in an accepting state bound to L at which the terminal
\* condition holds
RECURSIVE ChainExists(_, _, _, _, _, _)
ChainExists(M, st, buf, c, L, n) ==
    \/ /\ c = n
       /\ IsTerminalStep(M, st, Len(buf) - c)
       /\ IsAccepting(M, st)
       /\ M.AcceptanceStates[st] = L
    \/ /\ ValidState(M, st)
       /\ \E cur \in 1..Len(M.States[st]) :
             LET match == LeafMatchResult(M.States[st][cur].first, buf, c, Len(buf) - c)
             IN  /\ match[2] > 0
                 /\ \E s \in 1..Len(M.States[st][cur].second) :
                       ChainExists(M, M.States[st][cur].second[s], buf, c + match[2], L, n)

\* C18: soundness of a reported match.  For a machine built from leaf
\* matchers, a result (L, n) of Match with n > 0 has a chain of states from
\* InitialState along transitions whose matchers succeed at the offset
\* reached so far, consuming n tokens in total and ending in an accepting
\* state bound to L at which the terminal condition holds.
C18_SoundMatch ==
    (Done /\ LeafOnly(Machine(machine)) /\ ret[2] > 0) =>
        ChainExists(Machine(machine), Machine(machine).InitialState, input, 0,
                    ret[1], ret[2])

\* the activation that began the Match call activation i belongs to: the
\* bottom of the stack, or the one pushed by a step that waits for a
\* sub-machine's result
RECURSIVE CallRoot(_)
CallRoot(i) ==
    IF i = 1 \/ stack[i - 1].pc = "wait_match" THEN i ELSE CallRoot(i - 1)

\* C19: position bookkeeping.  In every recursive step of a Match call on an
\* input of length N, consumedSoFar + remaining = N; the remaining length
\* never wraps around below 0 (it stays the distance from the step's position
\* to the end of the buffer); the count a Match call returns is at most its
\* N.  Machines of leaf matchers and machines with sub-machine matchers.
C19_PositionBookkeeping ==
    /\ \A i \in 1..Len(stack) :
          /\ stack[i].charsMatched + stack[i].inputLength
                = stack[CallRoot(i)].inputLength
          /\ stack[CallRoot(i)].charsMatched = 0
          /\ stack[i].input + stack[i].inputLength = Len(input)
          /\ stack[i].inputLength <= Len(input)
    /\ (stack = <<>> /\ ret # None) => ret[2] <= Len(input)
    /\ (Len(stack) > 0 /\ ret # None) =>
          ret[2] <= stack[CallRoot(Len(stack))].inputLength

\* a step inside a sub-machine's Match call, with tokens consumed and tokens
\* remaining, while the outer call waits for the sub-machine
C19_Witness ==
    /\ Len(stack) > 2
    /\ Top.charsMatched > 0
    /\ Top.inputLength > 0
    /\ CallRoot(Len(stack)) > 1
    /\ stack[CallRoot(Len(stack))].inputLength = Len(input)

====
